---- MODULE Spec2Model ----
(***************************************************************************)
(* CryptoBoard backend (cryptoboard-backend/main.py): a FastAPI process     *)
(* that loads two CSV tables at import time and serves seven read-only     *)
(* endpoints over them.                                                    *)
(*                                                                         *)
(* Strings are sequences of one-character strings.  A response is          *)
(* [status, error, body]; an exception escaping a handler is the 500       *)
(* response carrying the exception's name.  Every handler is an async def  *)
(* with no await in it, so on the event loop each handler runs to          *)
(* completion: one action per handler, and concurrent requests are the     *)
(* interleavings of these actions.                                         *)
(***************************************************************************)
EXTENDS Integers, Sequences, FiniteSets

VARIABLES pc, articles_df, word_counts_df, request, response, first

vars == <<pc, articles_df, word_counts_df, request, response, first>>

(***************************************************************************)
(* Bounds of the model.                                                    *)
(***************************************************************************)
MaxArticles == 3
MaxSkip == 3
MaxLimit == 3
MaxCoinLen == 2
MaxCatLen == 1
MaxWordLen == 1
MaxBase == 10
MaxTail == 2

(***************************************************************************)
(* Program constants.                                                      *)
(***************************************************************************)
TopN == 10
TopPerArticle == 5

(***************************************************************************)
(* Characters and strings.                                                 *)
(***************************************************************************)
\* The characters of a query argument: a letter in both cases and the
\* character "." (article contents also hold the blank " ").
ArgChars == {"a", "A", "."}

Min(x, y) == IF x < y THEN x ELSE y
Max(x, y) == IF x > y THEN x ELSE y

\* Code point of a character, the order Python compares strings by.
Ord(c) == CASE c = " " -> 32 [] c = "." -> 46 [] c = "A" -> 65 [] OTHER -> 97

\* str.lower() on one character, and on a string.
Lower(c) == IF c = "A" THEN "a" ELSE c
LowerStr(s) == [i \in DOMAIN s |-> Lower(s[i])]

\* Python's < on strings: lexicographic by code point, a proper prefix first.
RECURSIVE StrLess(_, _)
StrLess(s, t) ==
    IF t = <<>> THEN FALSE
    ELSE IF s = <<>> THEN TRUE
    ELSE IF s[1] # t[1] THEN Ord(s[1]) < Ord(t[1])
    ELSE StrLess(Tail(s), Tail(t))

\* All strings over an alphabet of length at most n.
RECURSIVE StringsUpTo(_, _)
StringsUpTo(alphabet, n) ==
    IF n = 0 THEN {<<>>}
    ELSE LET shorter == StringsUpTo(alphabet, n - 1)
         IN  shorter \cup {Append(s, c) : s \in shorter, c \in alphabet}

\* All sequences over a set of length at most n.
RECURSIVE SeqsUpTo(_, _)
SeqsUpTo(S, n) ==
    IF n = 0 THEN {<<>>}
    ELSE LET shorter == SeqsUpTo(S, n - 1)
         IN  shorter \cup {Append(s, x) : s \in shorter, x \in S}

\* One pattern character of a regular expression against one character of
\* the subject: "." matches any character, any other character of the
\* alphabet matches itself (under re.IGNORECASE, up to case).
CharMatches(p, c, ignorecase) ==
    \/ p = "."
    \/ IF ignorecase THEN Lower(p) = Lower(c) ELSE p = c

\* re.search(pat, s): the pattern matches at some position of s.
RegexSearch(pat, s, ignorecase) ==
    \E i \in 1..(Len(s) + 1) :
        /\ i + Len(pat) - 1 <= Len(s)
        /\ \A k \in 1..Len(pat) : CharMatches(pat[k], s[i + k - 1], ignorecase)

\* Series.str.contains(pat, case=..., na=False) with the default regex=True.
StrContains(s, pat, case) == RegexSearch(pat, s, ~case)

\* Python's seq[start:stop].
PySlice(seq, start, stop) ==
    LET n == Len(seq)
        norm(i) == IF i < 0 THEN Max(i + n, 0) ELSE Min(i, n)
    IN  SubSeq(seq, norm(start) + 1, norm(stop))

\* str.split(): the maximal runs of non-whitespace characters.
RECURSIVE SplitFrom(_, _, _)
SplitFrom(s, i, cur) ==
    IF i > Len(s) THEN (IF cur = <<>> THEN <<>> ELSE <<cur>>)
    ELSE IF s[i] = " "
         THEN (IF cur = <<>> THEN <<>> ELSE <<cur>>) \o SplitFrom(s, i + 1, <<>>)
         ELSE SplitFrom(s, i + 1, Append(cur, s[i]))

Split(s) == SplitFrom(s, 1, <<>>)

(***************************************************************************)
(* Frames and their operations.  A table is a sequence of rows.            *)
(***************************************************************************)
\* Stable insertion of a row into a sequence sorted by count, descending.
RECURSIVE InsertDesc(_, _)
InsertDesc(x, sorted) ==
    IF sorted = <<>> THEN <<x>>
    ELSE IF sorted[1].count >= x.count
         THEN <<sorted[1]>> \o InsertDesc(x, Tail(sorted))
         ELSE <<x>> \o sorted

RECURSIVE SortDescFrom(_, _, _)
SortDescFrom(rows, i, acc) ==
    IF i > Len(rows) THEN acc
    ELSE SortDescFrom(rows, i + 1, InsertDesc(rows[i], acc))

\* DataFrame.sort_values('count', ascending=False): on frames of this size
\* numpy's default sort is an insertion sort, so equal counts keep their
\* order.
SortByCountDesc(rows) == SortDescFrom(rows, 1, <<>>)

\* Stable insertion of a group into a sequence sorted by key, ascending.
RECURSIVE InsertByWord(_, _)
InsertByWord(x, sorted) ==
    IF sorted = <<>> THEN <<x>>
    ELSE IF StrLess(x.word, sorted[1].word)
         THEN <<x>> \o sorted
         ELSE <<sorted[1]>> \o InsertByWord(x, Tail(sorted))

RECURSIVE SumWhere(_, _, _)
SumWhere(rows, w, i) ==
    IF i > Len(rows) THEN 0
    ELSE (IF rows[i].word = w THEN rows[i].count ELSE 0) + SumWhere(rows, w, i + 1)

RECURSIVE GroupFrom(_, _, _)
GroupFrom(rows, i, acc) ==
    IF i > Len(rows) THEN acc
    ELSE IF \E j \in 1..(i - 1) : rows[j].word = rows[i].word
         THEN GroupFrom(rows, i + 1, acc)
         ELSE GroupFrom(rows, i + 1,
                InsertByWord([word |-> rows[i].word,
                              count |-> SumWhere(rows, rows[i].word, i)], acc))

\* DataFrame.groupby('word').sum(): one group per word, the groups in
\* key order, the word as the index and the summed count as the column.
GroupByWordSum(rows) == GroupFrom(rows, 1, <<>>)

RECURSIVE WhereWord(_, _)
WhereWord(rows, w) ==
    IF rows = <<>> THEN <<>>
    ELSE (IF rows[1].word = w THEN <<rows[1]>> ELSE <<>>) \o WhereWord(Tail(rows), w)

\* frame[columns]: the named columns of every row of the article table.
TitleLink(rows) == [i \in DOMAIN rows |-> [title |-> rows[i].title, link |-> rows[i].link]]

RECURSIVE SelectRows(_, _, _, _)
SelectRows(rows, column, pat, case) ==
    IF rows = <<>> THEN <<>>
    ELSE (IF StrContains(IF column = "link" THEN rows[1].link ELSE rows[1].content,
                         pat, case)
          THEN <<rows[1]>> ELSE <<>>) \o SelectRows(Tail(rows), column, pat, case)

\* DataFrame.to_dict(orient='records'): one record per row holding the
\* frame's columns; the index is not part of a record.
ToDictRecords(frame) ==
    IF frame.index = "word"
    THEN [i \in DOMAIN frame.rows |-> [count |-> frame.rows[i].count]]
    ELSE frame.rows

\* DataFrame.head(n).
Head_n(frame, n) == [frame EXCEPT !.rows = PySlice(frame.rows, 0, n)]

\* DataFrame.sort_values('count', ascending=False) keeps the index.
SortValues(frame) == [frame EXCEPT !.rows = SortByCountDesc(frame.rows)]

(***************************************************************************)
(* Floats, responses.                                                      *)
(***************************************************************************)
NaN == [nan |-> TRUE, num |-> 0, den |-> 1]
Ratio(n, d) == [nan |-> FALSE, num |-> n, den |-> d]

RECURSIVE SumLen(_)
SumLen(rows) == IF rows = <<>> THEN 0 ELSE Len(rows[1].content) + SumLen(Tail(rows))

\* Series.apply(len).mean(): the mean of an empty series is NaN.
MeanLen(rows) == IF rows = <<>> THEN NaN ELSE Ratio(SumLen(rows), Len(rows))

Raise(name) == [status |-> 500, error |-> name, body |-> <<>>]

\* JSONResponse(content=...) renders with json.dumps(..., allow_nan=False),
\* which raises ValueError on a NaN.  floats: the float values in content.
JSONResponse(content, floats) ==
    IF \E f \in floats : f.nan THEN Raise("ValueError")
    ELSE [status |-> 200, error |-> "", body |-> content]

(***************************************************************************)
(* Counter and the per-article top words.                                  *)
(***************************************************************************)
RECURSIVE CountOf(_, _)
CountOf(tokens, w) ==
    IF tokens = <<>> THEN 0
    ELSE (IF tokens[1] = w THEN 1 ELSE 0) + CountOf(Tail(tokens), w)

RECURSIVE CounterItems(_, _)
CounterItems(tokens, i) ==
    IF i > Len(tokens) THEN <<>>
    ELSE IF \E j \in 1..(i - 1) : tokens[j] = tokens[i]
         THEN CounterItems(tokens, i + 1)
         ELSE <<[word |-> tokens[i], count |-> CountOf(tokens, tokens[i])]>>
              \o CounterItems(tokens, i + 1)

\* collections.Counter(word_list): the items in first-seen order.
Counter(tokens) == [type |-> "Counter", items |-> CounterItems(tokens, 1)]

stop_words ==
    { <<"t","h","e">>, <<"a">>, <<"a","n">>, <<"a","n","d">>, <<"o","r">>,
      <<"t","o">>, <<"i","n">>, <<"o","f">>, <<"f","o","r">>,
      <<"w","i","t","h">>, <<"o","n">>, <<"a","t">> }

RECURSIVE KeepNonStop(_)
KeepNonStop(items) ==
    IF items = <<>> THEN <<>>
    ELSE (IF LowerStr(items[1].word) \notin stop_words THEN <<items[1]>> ELSE <<>>)
         \o KeepNonStop(Tail(items))

\* {k: v for k, v in word_count.items() if k.lower() not in stop_words}:
\* a dict comprehension builds a plain dict.
filtered_words(word_count) == [type |-> "dict", items |-> KeepNonStop(word_count.items)]

\* obj.most_common(n): a method of Counter; a dict has no such attribute.
most_common(obj, n) ==
    IF obj.type = "Counter"
    THEN [raised |-> "", value |-> PySlice(SortByCountDesc(obj.items), 0, n)]
    ELSE [raised |-> "AttributeError", value |-> <<>>]

\* The body of the loop of get_article_counter for one row.
article_top_words(row) ==
    most_common(filtered_words(Counter(Split(row.content))), TopPerArticle)

(***************************************************************************)
(* The tables a run may load, and the arguments a request may carry.       *)
(***************************************************************************)
Articles ==
    { [title |-> "t1", link |-> <<"a", "A">>, content |-> <<"A", " ", "a">>],
      [title |-> "t2", link |-> <<"a", ".">>,
       content |-> <<"a", "a", " ", ".", " ", ".">>],
      [title |-> "t3", link |-> <<"A">>, content |-> <<"A", "A">>] }

ArticleTables == SeqsUpTo(Articles, MaxArticles)

FewArticleTables == SeqsUpTo(Articles, 1)

WordList ==
    << <<"a">>, <<".">>, <<"a", "a">>, <<"a", "A">>, <<"a", ".">>, <<"A", "a">>,
       <<"A", "A">>, <<"A", ".">>, <<".", "a">>, <<".", "A">>, <<".", ".">>,
       <<"A">> >>

\* The first k rows of a table with one row per word of WordList, the
\* counts neither sorted nor distinct.
BaseRows(k) ==
    [i \in 1..k |-> [word |-> WordList[((i - 1) % Len(WordList)) + 1],
                     count |-> ((i * 2) % 3) + 1]]

TailRows == [word : {<<"a">>, <<"A">>}, count : {1, 5}]

WordTables ==
    {BaseRows(k) \o tail : k \in 0..MaxBase, tail \in SeqsUpTo(TailRows, MaxTail)}

FewWordTables == {BaseRows(0), BaseRows(2) \o <<[word |-> <<"a">>, count |-> 5]>>}

Skips == (-1)..MaxSkip
Limits == 0..MaxLimit
TrendWords == StringsUpTo(ArgChars, MaxWordLen)
Coins == StringsUpTo(ArgChars, MaxCoinLen)
Categories == StringsUpTo(ArgChars, MaxCatLen)

(***************************************************************************)
(* The handlers.                                                           *)
(***************************************************************************)
\* get_word_counts without the final head(10).
get_word_counts_no_head ==
    SortValues([index |-> "word", rows |-> GroupByWordSum(word_counts_df.rows)])

get_word_counts ==
    LET word_counts ==
            SortValues([index |-> "word", rows |-> GroupByWordSum(word_counts_df.rows)])
    IN  Head_n(word_counts, TopN)

\* get_newsfeed slicing iloc[skip:limit] instead of iloc[skip:skip+limit].
get_newsfeed_stop_at_limit(skip, limit) ==
    JSONResponse(PySlice(TitleLink(articles_df.rows), skip, limit), {})

get_newsfeed(skip, limit) ==
    LET articles == PySlice(TitleLink(articles_df.rows), skip, skip + limit)
    IN  JSONResponse(ToDictRecords([index |-> "range", rows |-> articles]), {})

get_word_cloud ==
    LET word_counts == get_word_counts
    IN  JSONResponse(ToDictRecords(word_counts), {})

RECURSIVE article_words_from(_, _, _)
article_words_from(rows, i, article_words) ==
    IF i > Len(rows) THEN JSONResponse(article_words, {})
    ELSE LET top_words == article_top_words(rows[i])
         IN  IF top_words.raised # "" THEN Raise(top_words.raised)
             ELSE article_words_from(rows, i + 1,
                    Append(article_words,
                           [title |-> rows[i].title, top_words |-> top_words.value]))

get_article_counter == article_words_from(articles_df.rows, 1, <<>>)

\* get_word_trend without the sort_values call.
get_word_trend_unsorted(word) ==
    JSONResponse(WhereWord(word_counts_df.rows, word), {})

\* get_word_trend answering from a cache of its last answer that is not keyed
\* by the word.
get_word_trend_cached(word) ==
    IF request.op = "word-trend" THEN response
    ELSE JSONResponse(SortByCountDesc(WhereWord(word_counts_df.rows, word)), {})

get_word_trend(word) ==
    LET word_data == SortValues([index |-> "range",
                                 rows |-> WhereWord(word_counts_df.rows, word)])
    IN  JSONResponse(ToDictRecords(word_data), {})

get_comparative(category1, category2) ==
    LET articles_in_category1 == SelectRows(articles_df.rows, "link", category1, TRUE)
        articles_in_category2 == SelectRows(articles_df.rows, "link", category2, TRUE)
    IN  JSONResponse([category1 |-> Len(articles_in_category1),
                      category2 |-> Len(articles_in_category2)], {})

get_by_coin(coin) ==
    LET coin_articles == SelectRows(articles_df.rows, "content", coin, FALSE)
    IN  JSONResponse(ToDictRecords([index |-> "range", rows |-> TitleLink(coin_articles)]),
                     {})

get_meta ==
    LET total_articles == Len(articles_df.rows)
        avg_article_length == MeanLen(articles_df.rows)
    IN  JSONResponse([total_articles |-> total_articles,
                      average_article_length |-> avg_article_length],
                     {avg_article_length})

(***************************************************************************)
(* The process: the module-level loads, then the handlers.                 *)
(***************************************************************************)
NoFrame == [loaded |-> FALSE, rows |-> <<>>]
NoRequest == [op |-> "none", args |-> <<>>]
NoResponse == [status |-> 0, error |-> "", body |-> <<>>]

Init ==
    /\ pc = "load_articles"
    /\ articles_df = NoFrame
    /\ word_counts_df = NoFrame
    /\ request = NoRequest
    /\ response = NoResponse
    /\ first = [request |-> NoRequest, response |-> NoResponse]

\* articles_df = pd.read_csv(...) returns.
LoadArticles(tables) ==
    /\ pc = "load_articles"
    /\ \E t \in tables : articles_df' = [loaded |-> TRUE, rows |-> t]
    /\ pc' = "load_word_counts"
    /\ UNCHANGED <<word_counts_df, request, response, first>>

\* pd.read_csv raises at module level: the import fails and the process ends.
LoadArticlesFails ==
    /\ pc = "load_articles"
    /\ pc' = "aborted"
    /\ UNCHANGED <<articles_df, word_counts_df, request, response, first>>

\* word_counts_df = pd.read_csv(...) returns; the module is imported and the
\* application starts serving.
LoadWordCounts(tables) ==
    /\ pc = "load_word_counts"
    /\ \E t \in tables : word_counts_df' = [loaded |-> TRUE, rows |-> t]
    /\ pc' = "serving"
    /\ UNCHANGED <<articles_df, request, response, first>>

\* A failed load of the word counts swallowed: the application starts anyway.
LoadWordCountsFailsAndServes ==
    /\ pc = "load_word_counts"
    /\ pc' = "serving"
    /\ UNCHANGED <<articles_df, word_counts_df, request, response, first>>

LoadWordCountsFails ==
    /\ pc = "load_word_counts"
    /\ pc' = "aborted"
    /\ UNCHANGED <<articles_df, word_counts_df, request, response, first>>

\* One action per handler: the handler reads the two tables and returns its
\* response; nothing else is assigned.
Newsfeed(skip, limit) ==
    /\ pc = "serving"
    /\ request' = [op |-> "newsfeed", args |-> <<skip, limit>>]
    /\ response' = get_newsfeed(skip, limit)
    /\ UNCHANGED <<pc, articles_df, word_counts_df, first>>

WordCloud ==
    /\ pc = "serving"
    /\ request' = [op |-> "word-cloud", args |-> <<>>]
    /\ response' = get_word_cloud
    /\ UNCHANGED <<pc, articles_df, word_counts_df, first>>

ArticleCounter ==
    /\ pc = "serving"
    /\ request' = [op |-> "article-counter", args |-> <<>>]
    /\ response' = get_article_counter
    /\ UNCHANGED <<pc, articles_df, word_counts_df, first>>

WordTrend(word) ==
    /\ pc = "serving"
    /\ request' = [op |-> "word-trend", args |-> <<word>>]
    /\ response' = get_word_trend(word)
    /\ UNCHANGED <<pc, articles_df, word_counts_df, first>>

Comparative(category1, category2) ==
    /\ pc = "serving"
    /\ request' = [op |-> "comparative", args |-> <<category1, category2>>]
    /\ response' = get_comparative(category1, category2)
    /\ UNCHANGED <<pc, articles_df, word_counts_df, first>>

ByCoin(coin) ==
    /\ pc = "serving"
    /\ request' = [op |-> "by-coin", args |-> <<coin>>]
    /\ response' = get_by_coin(coin)
    /\ UNCHANGED <<pc, articles_df, word_counts_df, first>>

Meta ==
    /\ pc = "serving"
    /\ request' = [op |-> "meta", args |-> <<>>]
    /\ response' = get_meta
    /\ UNCHANGED <<pc, articles_df, word_counts_df, first>>

\* A client keeps the answer it just received, to compare later answers
\* to the same request with it.
ClientKeeps ==
    /\ pc = "serving"
    /\ request.op # "none"
    /\ first' = [request |-> request, response |-> response]
    /\ UNCHANGED <<pc, articles_df, word_counts_df, request, response>>

\* The whole process, over small tables and arguments.
Next ==
    \/ LoadArticles(FewArticleTables)
    \/ LoadArticlesFails
    \/ LoadWordCounts(FewWordTables)
    \/ LoadWordCountsFails
    \/ \E skip \in {0, 1}, limit \in {1, 10} : Newsfeed(skip, limit)
    \/ WordCloud
    \/ ArticleCounter
    \/ \E word \in StringsUpTo({"a", "A"}, 1) : WordTrend(word)
    \/ \E c1 \in {<<"a">>, <<".">>}, c2 \in {<<"A">>} : Comparative(c1, c2)
    \/ \E coin \in {<<"a">>, <<".">>} : ByCoin(coin)
    \/ Meta
    \/ ClientKeeps

Spec == Init /\ [][Next]_vars

\* The endpoints over the word-count table.
NextWords ==
    \/ LoadArticles(FewArticleTables)
    \/ LoadArticlesFails
    \/ LoadWordCounts(WordTables)
    \/ LoadWordCountsFails
    \/ WordCloud
    \/ \E word \in TrendWords : WordTrend(word)

SpecWords == Init /\ [][NextWords]_vars

\* The endpoints over the article table.
NextArticles ==
    \/ LoadArticles(ArticleTables)
    \/ LoadArticlesFails
    \/ LoadWordCounts(FewWordTables)
    \/ LoadWordCountsFails
    \/ \E skip \in Skips, limit \in Limits : Newsfeed(skip, limit)
    \/ ArticleCounter
    \/ \E c1 \in Categories, c2 \in Categories : Comparative(c1, c2)
    \/ \E coin \in Coins : ByCoin(coin)
    \/ Meta

SpecArticles == Init /\ [][NextArticles]_vars

\* The newsfeed alone, paging over the article table.
NextNewsfeed ==
    \/ LoadArticles(ArticleTables)
    \/ LoadArticlesFails
    \/ LoadWordCounts(FewWordTables)
    \/ LoadWordCountsFails
    \/ \E skip \in Skips, limit \in Limits : Newsfeed(skip, limit)

SpecNewsfeed == Init /\ [][NextNewsfeed]_vars

(***************************************************************************)
(* Reference definitions the properties compare the handlers with.         *)
(***************************************************************************)
RECURSIVE SumCounts(_, _)
SumCounts(rows, idx) ==
    IF idx = {} THEN 0
    ELSE LET i == CHOOSE j \in idx : TRUE
         IN  rows[i].count + SumCounts(rows, idx \ {i})

\* The sum of the counts of all rows of the word-count table for a word.
RecordedTotal(w) ==
    SumCounts(word_counts_df.rows,
              {i \in DOMAIN word_counts_df.rows : word_counts_df.rows[i].word = w})

NonIncreasing(counts) ==
    \A i \in 1..(Len(counts) - 1) : counts[i].count >= counts[i + 1].count

\* sub occurs in s as a literal substring, up to case when ignorecase.
ContainsLiteral(s, sub, ignorecase) ==
    \E i \in 1..(Len(s) + 1) :
        /\ i + Len(sub) - 1 <= Len(s)
        /\ \A k \in 1..Len(sub) :
              IF ignorecase THEN Lower(sub[k]) = Lower(s[i + k - 1])
              ELSE sub[k] = s[i + k - 1]

RECURSIVE ArticlesMentioning(_, _)
ArticlesMentioning(rows, coin) ==
    IF rows = <<>> THEN <<>>
    ELSE (IF ContainsLiteral(rows[1].content, coin, TRUE)
          THEN <<[title |-> rows[1].title, link |-> rows[1].link]>> ELSE <<>>)
         \o ArticlesMentioning(Tail(rows), coin)

LinksContaining(category) ==
    Cardinality({i \in DOMAIN articles_df.rows :
                    ContainsLiteral(articles_df.rows[i].link, category, FALSE)})

\* The rows skip+1 .. skip+limit of the article table (0 <= skip), projected.
PageOf(skip, limit) ==
    LET n == Len(articles_df.rows)
    IN  [k \in 1..(Min(skip + limit, n) - Min(skip, n)) |->
            [title |-> articles_df.rows[skip + k].title,
             link |-> articles_df.rows[skip + k].link]]

\* The pages newsfeed(skip, n), newsfeed(skip + n, n), ... up to the end of
\* the table, concatenated.
RECURSIVE PagesFrom(_, _)
PagesFrom(skip, n) ==
    IF skip >= Len(articles_df.rows) THEN <<>>
    ELSE get_newsfeed(skip, n).body \o PagesFrom(skip + n, n)

(***************************************************************************)
(* The properties.                                                         *)
(***************************************************************************)

\* C1: the frame get_word_counts returns, which word-cloud serves, has at
\* most 10 entries, sorted non-increasing by count, each entry's count the sum
\* of the counts of all rows for its word; on an empty table it is empty and
\* so is the response.
C1_TopWords ==
    request.op = "word-cloud" =>
        LET top == get_word_counts.rows
        IN  /\ Len(top) <= 10
            /\ NonIncreasing(top)
            /\ \A i \in DOMAIN top : top[i].count = RecordedTotal(top[i].word)
            /\ \A i, j \in DOMAIN top : i # j => top[i].word # top[j].word
            /\ response.status = 200
            /\ Len(response.body) = Len(top)
            /\ \A i \in DOMAIN top : response.body[i].count = top[i].count
            /\ (word_counts_df.rows = <<>> => top = <<>> /\ response.body = <<>>)

\* More than 10 distinct words, some word on several rows, word-cloud served.
C1_Witness ==
    /\ request.op = "word-cloud"
    /\ Len(GroupByWordSum(word_counts_df.rows)) > 10
    /\ Len(word_counts_df.rows) > Len(GroupByWordSum(word_counts_df.rows))
    /\ Len(response.body) = 10
    /\ response.body[1].count > response.body[10].count

\* C2: every entry of the word-cloud response is a {word, count} pair, the
\* count being the summed count of the word it carries.
C2_WordCloudEntries ==
    (request.op = "word-cloud" /\ word_counts_df.rows # <<>>) =>
        /\ response.status = 200
        /\ response.body # <<>>
        /\ \A i \in DOMAIN response.body :
              /\ DOMAIN response.body[i] = {"word", "count"}
              /\ response.body[i].count = RecordedTotal(response.body[i].word)

\* C3: article-counter returns one entry per article in table order, each
\* with at most 5 words, none a stopword when lowercased, each count a recount
\* of the whitespace-split tokens of the article's content.
C3_ArticleTopWords ==
    request.op = "article-counter" =>
        /\ response.status = 200
        /\ Len(response.body) = Len(articles_df.rows)
        /\ \A i \in DOMAIN response.body :
              LET entry == response.body[i]
                  row == articles_df.rows[i]
              IN  /\ entry.title = row.title
                  /\ Len(entry.top_words) <= 5
                  /\ \A k \in DOMAIN entry.top_words :
                        /\ LowerStr(entry.top_words[k].word) \notin stop_words
                        /\ entry.top_words[k].count
                             = CountOf(Split(row.content), entry.top_words[k].word)

\* C4: for every page size n >= 1 the pages newsfeed(0, n), newsfeed(n, n),
\* ... concatenated are the {title, link} projection of the article table in
\* order, and a served page is the rows [skip, skip+limit) of the table.
C4_NewsfeedPages ==
    pc = "serving" =>
        /\ \A n \in 1..MaxLimit : PagesFrom(0, n) = TitleLink(articles_df.rows)
        /\ (request.op = "newsfeed" /\ request.args[1] >= 0) =>
              /\ response.status = 200
              /\ response.body = PageOf(request.args[1], request.args[2])

\* The last, partial page of a three-article table read two at a time.
C4_Witness ==
    /\ request.op = "newsfeed"
    /\ request.args = <<2, 2>>
    /\ Len(articles_df.rows) = 3
    /\ Len(response.body) = 1
    /\ response.body[1].title = articles_df.rows[3].title

\* C5: by-coin returns the {title, link} pairs of exactly the articles whose
\* content contains coin as a case-insensitive literal substring, in table
\* order, the same for every casing of coin.
C5_ByCoin ==
    request.op = "by-coin" =>
        /\ response.status = 200
        /\ response.body = ArticlesMentioning(articles_df.rows, request.args[1])
        /\ \A other \in Coins :
              LowerStr(other) = LowerStr(request.args[1])
                  => get_by_coin(other).body = response.body

\* C6: comparative returns, for each of its two arguments independently, the
\* number of articles whose link contains it as a case-sensitive literal
\* substring.
C6_Comparative ==
    request.op = "comparative" =>
        /\ response.status = 200
        /\ response.body.category1 = LinksContaining(request.args[1])
        /\ response.body.category2 = LinksContaining(request.args[2])

\* C7: meta completes without an error; on an empty table it returns
\* total_articles = 0 with a defined average, on a non-empty table the number
\* of articles and the arithmetic mean of the content lengths.
C7_Meta ==
    request.op = "meta" =>
        /\ response.status = 200
        /\ response.body.total_articles = Len(articles_df.rows)
        /\ ~response.body.average_article_length.nan
        /\ articles_df.rows # <<>> =>
              /\ response.body.average_article_length.num = SumLen(articles_df.rows)
              /\ response.body.average_article_length.den = Len(articles_df.rows)

\* An answer agrees with the answer the client kept for the same request.
SameAnswer ==
    (/\ first.request.op # "none"
     /\ request.op = first.request.op
     /\ request.args = first.request.args) => response = first.response

\* C8: no handler modifies the two tables, and whatever requests were served
\* in between, a request is answered as the same request was answered before.
C8_Pure ==
    /\ []SameAnswer
    /\ [][pc = "serving" => UNCHANGED <<articles_df, word_counts_df>>]_vars

\* The same word-trend request answered again, other requests in between.
C8_Witness ==
    /\ first.request.op = "word-trend"
    /\ first.response.body # <<>>
    /\ request = first.request
    /\ response = first.response

\* C9: a request is served only with both tables loaded, and once a load has
\* failed the process stays aborted and serves nothing.
C9_LoadBeforeServe ==
    /\ []((pc = "serving" \/ request.op # "none")
            => (articles_df.loaded /\ word_counts_df.loaded))
    /\ [](pc = "aborted" => request.op = "none")
    /\ [][pc = "aborted" => pc' = "aborted"]_vars
    /\ [][(articles_df.loaded => articles_df' = articles_df)
          /\ (word_counts_df.loaded => word_counts_df' = word_counts_df)]_vars

\* The articles loaded, the load of the word counts failed.
C9_Witness ==
    /\ pc = "aborted"
    /\ articles_df.loaded
    /\ ~word_counts_df.loaded

\* C10: word-trend returns exactly the rows whose word equals the argument
\* (case-sensitive), sorted by count descending, and nothing when no row has
\* the word.
C10_WordTrend ==
    request.op = "word-trend" =>
        LET word == request.args[1]
            rows == word_counts_df.rows
            body == response.body
        IN  /\ response.status = 200
            /\ NonIncreasing(body)
            /\ \A i \in DOMAIN body : body[i].word = word
            /\ \A c \in {rows[i].count : i \in DOMAIN rows} :
                  Cardinality({i \in DOMAIN body : body[i].count = c})
                    = Cardinality({i \in DOMAIN rows :
                                      rows[i].word = word /\ rows[i].count = c})
            /\ ((\A i \in DOMAIN rows : rows[i].word # word) => body = <<>>)

\* Several rows for the word with different counts, out of order in the
\* table, and a row for the word in another case.
C10_Witness ==
    /\ request.op = "word-trend"
    /\ Len(response.body) >= 2
    /\ response.body[1].count > response.body[2].count
    /\ \E i, j \in DOMAIN word_counts_df.rows :
          /\ i < j
          /\ word_counts_df.rows[i].word = request.args[1]
          /\ word_counts_df.rows[j].word = request.args[1]
          /\ word_counts_df.rows[i].count < word_counts_df.rows[j].count
    /\ \E i \in DOMAIN word_counts_df.rows :
          /\ word_counts_df.rows[i].word # request.args[1]
          /\ LowerStr(word_counts_df.rows[i].word) = LowerStr(request.args[1])

====
